---- MODULE Spec2Model ----
(***************************************************************************)
(* netspeed-lite: the scheduled execution engine.                          *)
(*                                                                         *)
(*   src/src/scheduler.rs  Scheduler::run, calculate_next_run, execute_run *)
(*   src/src/runner.rs     run_speedtest, execute_speedtest,               *)
(*                         parse_speedtest_output                          *)
(*   src/src/notifier.rs   Notifier::notify                                *)
(*   src/src/config.rs     Config                                          *)
(*                                                                         *)
(* Time is an integer count of ticks since the epoch.  One tick is one     *)
(* second, the finest instant the clock of the model yields, so            *)
(* nanosecond() is 0 at every instant.  A minute and an hour are scaled    *)
(* down (SecondsPerMinute, MinutesPerHour); a day keeps its 24 hours.      *)
(***************************************************************************)
EXTENDS Integers, Sequences, FiniteSets, TLC

(***************************************************************************)
(* Scale of the clock and bounds of the model.                             *)
(***************************************************************************)
SecondsPerMinute == 2
MinutesPerHour == 2
HoursPerDay == 24

MinuteTicks == SecondsPerMinute
HourTicks == MinutesPerHour * MinuteTicks
DayTicks == HoursPerDay * HourTicks
HalfHourTicks == (MinutesPerHour \div 2) * MinuteTicks

\* Days of the horizon over which calculate_next_run is evaluated.
CalcDays == 3
\* Largest interval_seconds / timeout_seconds a configuration carries.
MaxInterval == 2
MaxTimeout == 2
\* Ticks the clock of the run loop advances, and slots the loop starts.
Horizon == 3
MaxRuns == 2

\* A panic of the scheduler task (Option::expect / Result::expect).
PANIC == -1
\* Option::None of an instant.
NoInstant == -2

(***************************************************************************)
(* chrono / chrono_tz: time zones.  A zone is its standard offset, the     *)
(* amount its daylight-saving time adds, and the UTC instants between      *)
(* which daylight-saving time is in force.  The transitions are placed     *)
(* inside the horizon: forward on day 1, back on day 2.                    *)
(***************************************************************************)
Zones ==
    {"UTC", "Asia/Kolkata", "Europe/Brussels", "America/New_York",
     "Australia/Lord_Howe"}

ZoneInfo(z) ==
    CASE z = "UTC" ->
            [std |-> 0, shift |-> 0, from |-> 0, until |-> 0]
      [] z = "Asia/Kolkata" ->
            [std |-> 5 * HourTicks + HalfHourTicks, shift |-> 0,
             from |-> 0, until |-> 0]
      [] z = "Europe/Brussels" ->
            \* 02:00 CET -> 03:00 CEST at 01:00 UTC; 03:00 CEST -> 02:00 CET
            \* at 01:00 UTC.
            [std |-> HourTicks, shift |-> HourTicks,
             from |-> DayTicks + HourTicks,
             until |-> 2 * DayTicks + HourTicks]
      [] z = "America/New_York" ->
            \* 02:00 EST -> 03:00 EDT at 07:00 UTC; 02:00 EDT -> 01:00 EST
            \* at 06:00 UTC.
            [std |-> -5 * HourTicks, shift |-> HourTicks,
             from |-> DayTicks + 7 * HourTicks,
             until |-> 2 * DayTicks + 6 * HourTicks]
      [] z = "Australia/Lord_Howe" ->
            \* +10:30, and +11:00 in summer: the shift is half an hour.
            [std |-> 10 * HourTicks + HalfHourTicks, shift |-> HalfHourTicks,
             from |-> DayTicks + 15 * HourTicks + HalfHourTicks,
             until |-> 2 * DayTicks + 15 * HourTicks]

\* Offset of zone z from UTC at the UTC instant u.
Offset(z, u) ==
    LET zi == ZoneInfo(z)
    IN  zi.std + (IF zi.from <= u /\ u < zi.until THEN zi.shift ELSE 0)

\* DateTime<Utc>::with_timezone(&tz): the local date and time, as ticks.
LocalOf(z, u) == u + Offset(z, u)

\* Datelike / Timelike accessors of a local date and time.
Day(l) == l \div DayTicks
Hour(l) == (l % DayTicks) \div HourTicks
Minute(l) == (l % HourTicks) \div MinuteTicks
Second(l) == l % MinuteTicks

\* The largest offset of any zone, for the search ranges below.
MaxOffset == 12 * HourTicks

\* TimeZone::from_local_datetime: the instants whose local time is l.
\* No instant: the local time is skipped; two: it is ambiguous.
FromLocal(z, l) ==
    {u \in (l - MaxOffset)..(l + MaxOffset) : LocalOf(z, u) = l}

\* TimeZone::with_ymd_and_hms(year, month, day, hour, min, sec): the year,
\* month and day are the day number.
WithYmdAndHms(z, d, h, m, s) ==
    IF h >= HoursPerDay \/ m >= MinutesPerHour \/ s >= SecondsPerMinute
    THEN {}
    ELSE FromLocal(z, d * DayTicks + h * HourTicks + m * MinuteTicks + s)

\* LocalResult::single().
Single(r) ==
    IF Cardinality(r) = 1 THEN CHOOSE u \in r : TRUE ELSE NoInstant

(***************************************************************************)
(* cron: Schedule::from_str and Schedule::upcoming.  An expression is      *)
(* known by its text; CronFields gives the number of its fields and the    *)
(* seconds, minutes and hours it names (its day and month fields are "*",  *)
(* or name a day no month has).                                            *)
(***************************************************************************)
\* Option: None is the empty sequence and Some(x) the sequence of x.
None == <<>>
Some(x) == <<x>>
Unwrap(o) == o[1]

AllSeconds == 0..(SecondsPerMinute - 1)
AllMinutes == 0..(MinutesPerHour - 1)
AllHours == 0..(HoursPerDay - 1)

CronExprs ==
    {"0 * * * *", "0 0 * * * *", "0 * * * * *", "0 0 0 30 2 *", "bogus"}

CronFields(e) ==
    CASE e = "0 * * * *" ->
            [wellformed |-> TRUE, fields |-> 5, seconds |-> AllSeconds,
             minutes |-> {0}, hours |-> AllHours, days |-> TRUE]
      [] e = "0 0 * * * *" ->
            [wellformed |-> TRUE, fields |-> 6, seconds |-> {0},
             minutes |-> {0}, hours |-> AllHours, days |-> TRUE]
      [] e = "0 * * * * *" ->
            [wellformed |-> TRUE, fields |-> 6, seconds |-> {0},
             minutes |-> AllMinutes, hours |-> AllHours, days |-> TRUE]
      [] e = "0 0 0 30 2 *" ->
            [wellformed |-> TRUE, fields |-> 6, seconds |-> {0},
             minutes |-> {0}, hours |-> {0}, days |-> FALSE]
      [] OTHER ->
            [wellformed |-> FALSE, fields |-> 1, seconds |-> {},
             minutes |-> {}, hours |-> {}, days |-> FALSE]

\* Schedule::from_str: the expression has seconds, minutes, hours, day of
\* month, month, day of week and an optional year.
CronParses(e) ==
    LET f == CronFields(e) IN f.wellformed /\ f.fields \in {6, 7}

\* Whether the schedule of e fires at the local time l.
CronFiresAt(e, l) ==
    LET f == CronFields(e)
    IN  /\ f.days
        /\ Hour(l) \in f.hours
        /\ Minute(l) \in f.minutes
        /\ Second(l) \in f.seconds

\* Schedule::upcoming(tz).next(): the first firing after now.
Upcoming(e, z, t) ==
    LET fires == {u \in (t + 1)..(t + DayTicks + MaxOffset) :
                      CronFiresAt(e, LocalOf(z, u))}
    IN  IF fires = {} THEN NoInstant
        ELSE CHOOSE u \in fires : \A v \in fires : u <= v

(***************************************************************************)
(* Scheduler::calculate_next_run and the three policies.  t is the value   *)
(* Utc::now() returns inside the call.                                     *)
(***************************************************************************)
calculate_next_cron_run(cfg, t) ==
    IF cfg.cron_expression = None THEN PANIC
    ELSE IF ~CronParses(Unwrap(cfg.cron_expression)) THEN PANIC
    ELSE LET n == Upcoming(Unwrap(cfg.cron_expression), cfg.timezone, t)
         IN  IF n = NoInstant THEN t + MinuteTicks ELSE n

\* Mutant: the top of the current hour, without the case of the boundary.
calculate_next_aligned_run_this_hour(cfg, t) ==
    LET tz == cfg.timezone
        now_tz == LocalOf(tz, t)
        r == Single(WithYmdAndHms(tz, Day(now_tz), Hour(now_tz), 0, 0))
    IN  IF r = NoInstant THEN t + HourTicks ELSE r

\* Mutant: without a single instant, the hour boundary that follows now.
calculate_next_aligned_run_next_boundary(cfg, t) ==
    LET tz == cfg.timezone
        now_tz == LocalOf(tz, t)
    IN  IF Minute(now_tz) = 0 /\ Second(now_tz) = 0
        THEN t + HourTicks
        ELSE LET r == Single(WithYmdAndHms(tz, Day(now_tz),
                                           Hour(now_tz) + 1, 0, 0))
             IN  IF r = NoInstant
                 THEN t + HourTicks - (now_tz % HourTicks)
                 ELSE r

calculate_next_aligned_run(cfg, t) ==
    LET tz == cfg.timezone
        now_tz == LocalOf(tz, t)
    IN  IF Minute(now_tz) = 0 /\ Second(now_tz) = 0
        THEN t + HourTicks
        ELSE LET r == Single(WithYmdAndHms(tz, Day(now_tz),
                                           Hour(now_tz) + 1, 0, 0))
             IN  IF r = NoInstant THEN t + HourTicks ELSE r

\* Mutant: the next multiple of the interval on the wall clock.
calculate_next_interval_run_on_grid(cfg, t) ==
    IF cfg.interval_seconds = 0 THEN t
    ELSE ((t \div cfg.interval_seconds) + 1) * cfg.interval_seconds

calculate_next_interval_run(cfg, t) ==
    t + cfg.interval_seconds

calculate_next_run(cfg, t) ==
    CASE cfg.mode = "HourlyAligned" -> calculate_next_aligned_run(cfg, t)
      [] cfg.mode = "Interval" -> calculate_next_interval_run(cfg, t)
      [] cfg.mode = "Cron" -> calculate_next_cron_run(cfg, t)

(***************************************************************************)
(* Config: what Config::from_env returns.                                  *)
(***************************************************************************)
DefaultConfig ==
    [mode |-> "HourlyAligned",
     interval_seconds |-> HourTicks,
     cron_expression |-> None,
     timezone |-> "Europe/Brussels",
     allow_overlap |-> FALSE,
     timeout_seconds |-> MaxTimeout,
     ntfy |-> FALSE,
     notify_on |-> [success |-> TRUE, failure |-> TRUE]]

\* The configurations the run loop is checked with.
Schedules ==
    {[mode |-> "HourlyAligned", interval_seconds |-> HourTicks,
      cron_expression |-> None],
     [mode |-> "Interval", interval_seconds |-> 0, cron_expression |-> None],
     [mode |-> "Interval", interval_seconds |-> MaxInterval,
      cron_expression |-> None],
     [mode |-> "Cron", interval_seconds |-> HourTicks,
      cron_expression |-> Some("0 * * * * *")],
     [mode |-> "Cron", interval_seconds |-> HourTicks,
      cron_expression |-> None]}

Notifications ==
    {[ntfy |-> FALSE, notify_on |-> [success |-> TRUE, failure |-> TRUE]],
     [ntfy |-> TRUE, notify_on |-> [success |-> TRUE, failure |-> TRUE]],
     [ntfy |-> TRUE, notify_on |-> [success |-> TRUE, failure |-> FALSE]],
     [ntfy |-> TRUE, notify_on |-> [success |-> FALSE, failure |-> TRUE]]}

RunConfigs ==
    {[DefaultConfig EXCEPT !.mode = s.mode,
                           !.interval_seconds = s.interval_seconds,
                           !.cron_expression = s.cron_expression,
                           !.allow_overlap = o,
                           !.timeout_seconds = t,
                           !.ntfy = n.ntfy,
                           !.notify_on = n.notify_on] :
        s \in Schedules, o \in BOOLEAN, t \in 1..MaxTimeout,
        n \in Notifications}

\* The configurations calculate_next_run is evaluated with.
CalcConfigs ==
    {[DefaultConfig EXCEPT !.mode = "HourlyAligned", !.timezone = z] :
        z \in Zones}
    \cup {[DefaultConfig EXCEPT !.mode = "Interval",
                                !.interval_seconds = i] :
            i \in 0..MaxInterval}
    \cup {[DefaultConfig EXCEPT !.mode = "Cron", !.timezone = z,
                                !.cron_expression = e] :
            z \in Zones, e \in {Some(x) : x \in CronExprs} \cup {None}}

(***************************************************************************)
(* config.rs: Config::from_env.  The environment gives each variable a     *)
(* text or leaves it unset (None).  A number is known by its text: the     *)
(* defaults "3600" and "120" are one hour and the longest timeout of the   *)
(* scaled clock.                                                           *)
(***************************************************************************)
\* env::var(..).unwrap_or_else(|_| default)
UnwrapOr(o, default) == IF o = None THEN default ELSE Unwrap(o)

\* str::parse::<u64>: the number, or None when the text is not one.
ParseU64(text) ==
    CASE text = "0" -> Some(0)
      [] text = "1" -> Some(1)
      [] text = "2" -> Some(2)
      [] text = "3600" -> Some(HourTicks)
      [] text = "120" -> Some(MaxTimeout)
      [] OTHER -> None

\* str::parse::<bool>
ParseBool(text) ==
    CASE text = "true" -> Some(TRUE)
      [] text = "false" -> Some(FALSE)
      [] OTHER -> None

\* str::parse::<chrono_tz::Tz> succeeds.
ParsesAsTz(text) == text \in Zones

\* str::contains for the texts of NETSPEED_NOTIFY_ON.
Contains(text, word) ==
    CASE text = "success,failure" -> word \in {"success", "failure"}
      [] text = "success" -> word = "success"
      [] text = "failure" -> word = "failure"
      [] OTHER -> FALSE

\* Result<Config>
Ok(c) == [ok |-> TRUE, config |-> c, error |-> ""]
Err(e) == [ok |-> FALSE, config |-> DefaultConfig, error |-> e]

\* Mutant: a timeout of 0 seconds is accepted.
from_env_ZeroTimeoutAccepted(e) ==
    LET mode_text == UnwrapOr(e.NETSPEED_SCHEDULE_MODE, "hourly_aligned")
        interval_seconds ==
            ParseU64(UnwrapOr(e.NETSPEED_INTERVAL_SECONDS, "3600"))
        timezone == UnwrapOr(e.NETSPEED_TIMEZONE, "Europe/Brussels")
        allow_overlap ==
            ParseBool(UnwrapOr(e.NETSPEED_ALLOW_OVERLAP, "false"))
        timeout_seconds ==
            ParseU64(UnwrapOr(e.NETSPEED_TIMEOUT_SECONDS, "120"))
        notify_on_str == UnwrapOr(e.NETSPEED_NOTIFY_ON, "success,failure")
    IN  IF mode_text \notin {"hourly_aligned", "interval", "cron"}
        THEN Err("Invalid schedule mode")
        ELSE IF interval_seconds = None
        THEN Err("Invalid NETSPEED_INTERVAL_SECONDS")
        ELSE IF ~ParsesAsTz(timezone)
        THEN Err("Invalid timezone")
        ELSE IF allow_overlap = None
        THEN Err("Invalid NETSPEED_ALLOW_OVERLAP")
        ELSE IF timeout_seconds = None
        THEN Err("Invalid NETSPEED_TIMEOUT_SECONDS")
        ELSE Ok([mode |-> CASE mode_text = "hourly_aligned" -> "HourlyAligned"
                            [] mode_text = "interval" -> "Interval"
                            [] mode_text = "cron" -> "Cron",
                 interval_seconds |-> Unwrap(interval_seconds),
                 cron_expression |-> e.NETSPEED_SCHEDULE,
                 timezone |-> timezone,
                 allow_overlap |-> Unwrap(allow_overlap),
                 timeout_seconds |-> Unwrap(timeout_seconds),
                 ntfy |-> e.NETSPEED_NTFY_URL # None,
                 notify_on |->
                    [success |-> Contains(notify_on_str, "success"),
                     failure |-> Contains(notify_on_str, "failure")]])

\* Config::from_env
from_env(e) ==
    LET mode_text == UnwrapOr(e.NETSPEED_SCHEDULE_MODE, "hourly_aligned")
        interval_seconds ==
            ParseU64(UnwrapOr(e.NETSPEED_INTERVAL_SECONDS, "3600"))
        timezone == UnwrapOr(e.NETSPEED_TIMEZONE, "Europe/Brussels")
        allow_overlap ==
            ParseBool(UnwrapOr(e.NETSPEED_ALLOW_OVERLAP, "false"))
        timeout_seconds ==
            ParseU64(UnwrapOr(e.NETSPEED_TIMEOUT_SECONDS, "120"))
        notify_on_str == UnwrapOr(e.NETSPEED_NOTIFY_ON, "success,failure")
    IN  IF mode_text \notin {"hourly_aligned", "interval", "cron"}
        THEN Err("Invalid schedule mode")
        ELSE IF interval_seconds = None
        THEN Err("Invalid NETSPEED_INTERVAL_SECONDS")
        ELSE IF ~ParsesAsTz(timezone)
        THEN Err("Invalid timezone")
        ELSE IF allow_overlap = None
        THEN Err("Invalid NETSPEED_ALLOW_OVERLAP")
        ELSE IF timeout_seconds = None
        THEN Err("Invalid NETSPEED_TIMEOUT_SECONDS")
        ELSE IF Unwrap(timeout_seconds) = 0
        THEN Err("NETSPEED_TIMEOUT_SECONDS must be greater than 0")
        ELSE Ok([mode |-> CASE mode_text = "hourly_aligned" -> "HourlyAligned"
                            [] mode_text = "interval" -> "Interval"
                            [] mode_text = "cron" -> "Cron",
                 interval_seconds |-> Unwrap(interval_seconds),
                 cron_expression |-> e.NETSPEED_SCHEDULE,
                 timezone |-> timezone,
                 allow_overlap |-> Unwrap(allow_overlap),
                 timeout_seconds |-> Unwrap(timeout_seconds),
                 ntfy |-> e.NETSPEED_NTFY_URL # None,
                 notify_on |->
                    [success |-> Contains(notify_on_str, "success"),
                     failure |-> Contains(notify_on_str, "failure")]])

\* No variable is set.
NoEnv ==
    [NETSPEED_SCHEDULE_MODE |-> None, NETSPEED_INTERVAL_SECONDS |-> None,
     NETSPEED_SCHEDULE |-> None, NETSPEED_TIMEZONE |-> None,
     NETSPEED_ALLOW_OVERLAP |-> None, NETSPEED_TIMEOUT_SECONDS |-> None,
     NETSPEED_NTFY_URL |-> None, NETSPEED_NOTIFY_ON |-> None]

\* The environments the process is started with.
Envs ==
    [NETSPEED_SCHEDULE_MODE :
        {None, Some("interval"), Some("cron"), Some("weekly")},
     NETSPEED_INTERVAL_SECONDS : {None, Some("0"), Some("2"), Some("abc")},
     NETSPEED_SCHEDULE : {None} \cup {Some(x) : x \in CronExprs},
     NETSPEED_TIMEZONE : {None, Some("UTC"), Some("Mars/Phobos")},
     NETSPEED_ALLOW_OVERLAP : {None, Some("true"), Some("maybe")},
     NETSPEED_TIMEOUT_SECONDS : {None, Some("0"), Some("1"), Some("-5")},
     NETSPEED_NTFY_URL : {None, Some("https://ntfy.sh/netspeed")},
     NETSPEED_NOTIFY_ON : {None, Some("failure")}]

(***************************************************************************)
(* runner.rs: the payload on standard output and its classification.       *)
(* A payload is text that is not the JSON object, or the optional leaves   *)
(* of the object; bandwidths are bytes per second, latency and jitter are         *)
(* milliseconds.  A result holds bits per second, and seconds as the       *)
(* quotient [num, den].                                                    *)
(***************************************************************************)
\* Text serde_json does not accept as the object.
Garbage ==
    [json |-> FALSE, download |-> None, upload |-> None, latency |-> None,
     jitter |-> None]

\* The JSON object with these leaves (None: the leaf is absent).
Json(d, u, l, j) ==
    [json |-> TRUE, download |-> d, upload |-> u, latency |-> l, jitter |-> j]

\* RunOutcome::Success(SpeedtestResult).
Success(r) ==
    [kind |-> "Success", category |-> "", payload |-> None,
     result |-> Some(r)]

\* RunOutcome::Failure(ErrorCategory): the variant and what it carries.
Failure(c, p) ==
    [kind |-> "Failure", category |-> c, payload |-> Some(p),
     result |-> None]

\* No run has returned.
NoOutcome ==
    [kind |-> "", category |-> "", payload |-> None, result |-> None]

Categories ==
    {"Timeout", "CommandNotFound", "CommandFailed", "InvalidOutput",
     "MissingFields", "Internal"}

\* Mutant: a value is stored in the unit it arrives in.
BytesToBits_Unconverted(x) == x

\* f64 / 1000.0
MsToSeconds(x) == [num |-> x, den |-> 1000]

\* f64 * 8.0
BytesToBits(x) == x * 8

\* Mutant: the values that are present are validated before the leaves
\* that follow them are looked for.
parse_speedtest_output_range_first(json) ==
    IF ~json.json THEN Failure("InvalidOutput", "JSON parse error")
    ELSE IF json.download = None
    THEN Failure("MissingFields", "download.bandwidth")
    ELSE IF Unwrap(json.download) < 0
    THEN Failure("InvalidOutput", "Invalid download speed")
    ELSE IF json.upload = None
    THEN Failure("MissingFields", "upload.bandwidth")
    ELSE IF Unwrap(json.upload) < 0
    THEN Failure("InvalidOutput", "Invalid upload speed")
    ELSE IF json.latency = None
    THEN Failure("MissingFields", "ping.latency")
    ELSE IF Unwrap(json.latency) < 0
    THEN Failure("InvalidOutput", "Invalid latency")
    ELSE Success([download_bps |-> BytesToBits(Unwrap(json.download)),
                  upload_bps |-> BytesToBits(Unwrap(json.upload)),
                  latency_seconds |-> MsToSeconds(Unwrap(json.latency)),
                  jitter_seconds |-> IF json.jitter = None THEN None
                                     ELSE Some(MsToSeconds(Unwrap(json.jitter))),
                  packet_loss_ratio |-> None])

\* Mutant: text that is not JSON is read as an object without leaves.
parse_speedtest_output_lenient(json) ==
    IF ~json.json \/ json.download = None
    THEN Failure("MissingFields", "download.bandwidth")
    ELSE IF json.upload = None
    THEN Failure("MissingFields", "upload.bandwidth")
    ELSE IF json.latency = None
    THEN Failure("MissingFields", "ping.latency")
    ELSE Success([download_bps |-> BytesToBits(Unwrap(json.download)),
                  upload_bps |-> BytesToBits(Unwrap(json.upload)),
                  latency_seconds |-> MsToSeconds(Unwrap(json.latency)),
                  jitter_seconds |-> IF json.jitter = None THEN None
                                     ELSE Some(MsToSeconds(Unwrap(json.jitter))),
                  packet_loss_ratio |-> None])

\* Mutant: the values are not validated.
parse_speedtest_output_unvalidated(json) ==
    IF ~json.json THEN Failure("InvalidOutput", "JSON parse error")
    ELSE parse_speedtest_output_lenient(json)

parse_speedtest_output(json) ==
    IF ~json.json THEN Failure("InvalidOutput", "JSON parse error")
    ELSE IF json.download = None
    THEN Failure("MissingFields", "download.bandwidth")
    ELSE IF json.upload = None
    THEN Failure("MissingFields", "upload.bandwidth")
    ELSE IF json.latency = None
    THEN Failure("MissingFields", "ping.latency")
    ELSE LET download_bps == BytesToBits(Unwrap(json.download))
             upload_bps == BytesToBits(Unwrap(json.upload))
             latency_seconds == MsToSeconds(Unwrap(json.latency))
             jitter_seconds == IF json.jitter = None THEN None
                               ELSE Some(MsToSeconds(Unwrap(json.jitter)))
         IN  IF download_bps < 0
             THEN Failure("InvalidOutput", "Invalid download speed")
             ELSE IF upload_bps < 0
             THEN Failure("InvalidOutput", "Invalid upload speed")
             ELSE IF latency_seconds.num < 0
             THEN Failure("InvalidOutput", "Invalid latency")
             ELSE Success([download_bps |-> download_bps,
                           upload_bps |-> upload_bps,
                           latency_seconds |-> latency_seconds,
                           jitter_seconds |-> jitter_seconds,
                           packet_loss_ratio |-> None])

\* What the child of a run of the loop writes to standard output.
RunPayloads ==
    {Garbage,
     Json(None, Some(2), Some(3), None),
     Json(Some(1), Some(2), Some(3), Some(4)),
     Json(Some(2), Some(1), Some(1), None)}

\* ExitStatus::code(): a number, or None when a signal ended the process.
ExitCodes == {Some(0), Some(1), None}

\* io::ErrorKind of a failed spawn.
SpawnErrors == {"NotFound", "PermissionDenied"}

\* What the surroundings of the program can do: the results of spawn(),
\* the exit codes and the output of the command, whether collecting the
\* output can fail, and whether the notification request can fail.
AnyWorld ==
    [spawn |-> {"Ok"} \cup SpawnErrors,
     codes |-> ExitCodes,
     stdouts |-> RunPayloads,
     wait_ok |-> BOOLEAN,
     sent |-> BOOLEAN]

\* Surroundings in which the command is found, and exits with a payload or
\* fails, or hangs.
PlainWorld ==
    [spawn |-> {"Ok"},
     codes |-> {Some(0), Some(1)},
     stdouts |-> {Json(Some(1), Some(2), Some(3), Some(4))},
     wait_ok |-> {TRUE},
     sent |-> {TRUE}]

\* Surroundings that produce a success and each category of failure.
EachFailureWorld ==
    [spawn |-> {"Ok"} \cup SpawnErrors,
     codes |-> {Some(0), Some(1)},
     stdouts |-> {Garbage, Json(None, Some(2), Some(3), None),
                  Json(Some(1), Some(2), Some(3), Some(4))},
     wait_ok |-> BOOLEAN,
     sent |-> {TRUE}]

(***************************************************************************)
(* State.                                                                  *)
(***************************************************************************)
VARIABLES
    env,                \* the environment variables of the process
    config,             \* Scheduler.config
    world,              \* what the command and the network can do
    now,                \* the clock: Utc::now() and Instant::now()
    run_in_progress,    \* Scheduler.run_in_progress
    metrics,            \* Scheduler.metrics
    pc,                 \* where each invocation of Scheduler::run stands
    next_run,           \* run: next_run
    started,            \* run_speedtest: start
    deadline,           \* execute_speedtest: when timeout() expires
    child,              \* execute_speedtest: the spawned process
    outcome,            \* run_speedtest: RunResult.outcome
    duration,           \* run_speedtest: RunResult.duration
    posted              \* send_notification: the body of the request

vars ==
    <<env, config, world, now, run_in_progress, metrics, pc, next_run, started, deadline,
      child, outcome, duration, posted>>

\* Invocations of Scheduler::run on the one Scheduler.  main spawns one.
Runs == {1, 2}
\* Mutant: main spawns the task twice.
MainRuns_Two == {1, 2}
MainRuns == {1}

StartNow == DayTicks - MinuteTicks
MaxNow == StartNow + Horizon

NoChild == [state |-> "none", held |-> FALSE, code |-> None, stdout |-> None]

\* Metrics::new: gauges at 0.0, counters without samples.
NewMetrics ==
    [last_success |-> 0,
     runs_total |-> [success |-> 0, failure |-> 0, skipped |-> 0],
     run_duration_seconds |-> 0,
     run_timestamp_seconds |-> 0,
     download_bps |-> 0,
     upload_bps |-> 0,
     latency_seconds |-> MsToSeconds(0),
     jitter_seconds |-> MsToSeconds(0),
     packet_loss_ratio |-> 0,
     notify_total |-> [success |-> 0, failure |-> 0]]

\* Scheduler::new, and no invocation of run has taken a step.
InitScheduler(active) ==
    /\ run_in_progress = FALSE
    /\ metrics = NewMetrics
    /\ pc = [l \in Runs |-> IF l \in active THEN "calc" ELSE "absent"]
    /\ next_run = [l \in Runs |-> NoInstant]
    /\ started = [l \in Runs |-> NoInstant]
    /\ deadline = [l \in Runs |-> NoInstant]
    /\ child = [l \in Runs |-> NoChild]
    /\ outcome = [l \in Runs |-> NoOutcome]
    /\ duration = [l \in Runs |-> 0]
    /\ posted = [l \in Runs |-> None]

\* main: Config::from_env()?, Scheduler::new, tokio::spawn(run).  An Err
\* ends main before a Scheduler exists.
Startup(l) ==
    /\ pc[l] = "startup"
    /\ LET r == from_env(env)
       IN  IF r.ok
           THEN /\ config' = r.config
                /\ pc' = [pc EXCEPT ![l] = "calc"]
           ELSE /\ pc' = [pc EXCEPT ![l] = "exited"]
                /\ UNCHANGED config
    /\ UNCHANGED <<posted, env, world, now, run_in_progress, metrics, next_run,
                   started, deadline, child, outcome, duration>>

\* The environment is read by from_env only: once the Scheduler is
\* constructed it plays no part.
Init ==
    /\ env = NoEnv
    /\ config \in RunConfigs
    /\ world = AnyWorld
    /\ now = StartNow
    /\ InitScheduler(MainRuns)

(***************************************************************************)
(* Scheduler::run, one step per await point and per read of the clock.     *)
(***************************************************************************)
RunsCounted ==
    metrics.runs_total.success + metrics.runs_total.failure
        + metrics.runs_total.skipped

\* run: let next_run = self.calculate_next_run().  A panic ends the task.
CalculateNextRun(l) ==
    /\ pc[l] = "calc"
    /\ RunsCounted < MaxRuns
    /\ LET r == calculate_next_run(config, now)
       IN  IF r = PANIC
           THEN /\ pc' = [pc EXCEPT ![l] = "panicked"]
                /\ UNCHANGED next_run
           ELSE /\ pc' = [pc EXCEPT ![l] = "decide"]
                /\ next_run' = [next_run EXCEPT ![l] = r]
    /\ UNCHANGED <<posted, env, config, world, now, run_in_progress, metrics, started, deadline,
                   child, outcome, duration>>

\* run: let now = Utc::now(); if next_run > now { sleep(next_run - now) }.
SleepUntilNextRun(l) ==
    /\ pc[l] = "decide"
    /\ pc' = [pc EXCEPT ![l] = IF next_run[l] > now THEN "sleep" ELSE "check"]
    /\ UNCHANGED <<posted, env, config, world, now, run_in_progress, metrics, next_run, started,
                   deadline, child, outcome, duration>>

\* Mutant: the sleep completes at any time.
Wake_Early(l) ==
    /\ pc[l] = "sleep"
    /\ pc' = [pc EXCEPT ![l] = "check"]
    /\ UNCHANGED <<posted, env, config, world, now, run_in_progress, metrics,
                   next_run, started, deadline, child, outcome, duration>>

\* run: sleep(sleep_duration).await completes.
Wake(l) ==
    /\ pc[l] = "sleep"
    /\ now >= next_run[l]
    /\ pc' = [pc EXCEPT ![l] = "check"]
    /\ UNCHANGED <<posted, env, config, world, now, run_in_progress, metrics, next_run, started,
                   deadline, child, outcome, duration>>

\* Mutant: the check ignores the overlap policy.
SkipsRun_IgnoringPolicy(in_progress, allow_overlap) == in_progress

\* run: run_in_progress.load() && !allow_overlap.
SkipsRun(in_progress, allow_overlap) == in_progress /\ ~allow_overlap

\* Mutants: a store of execute_run is missing.
StoredOnEntry_Missing == run_in_progress
StoredOnReturn_Missing == run_in_progress

\* execute_run: what is stored in run_in_progress first, and last.
StoredOnEntry == TRUE
StoredOnReturn == FALSE

\* Mutant: a failed run is tried again at once.
LoopAfterRun_RetryOnFailure(o) ==
    IF o.kind = "Failure" THEN "spawn" ELSE "calc"

\* Mutant: the loop is left when a run has failed.
LoopAfterRun_BreakOnFailure(o) ==
    IF o.kind = "Failure" THEN "stopped" ELSE "calc"

\* run: where the loop goes after execute_run has returned outcome o.
LoopAfterRun(o) == "calc"

\* Mutant: a skipped slot is notified as a failure is.
OverlapCheck_SkipNotified(l) ==
    /\ pc[l] = "check"
    /\ IF SkipsRun(run_in_progress, config.allow_overlap)
       THEN /\ metrics' = [metrics EXCEPT !.runs_total.skipped = @ + 1]
            /\ pc' = [pc EXCEPT ![l] =
                         IF config.ntfy /\ config.notify_on.failure
                         THEN "notify" ELSE "calc"]
            /\ posted' = [posted EXCEPT ![l] =
                             IF config.ntfy /\ config.notify_on.failure
                             THEN Some("skipped") ELSE @]
            /\ next_run' = [next_run EXCEPT ![l] = NoInstant]
            /\ UNCHANGED <<run_in_progress, started>>
       ELSE /\ run_in_progress' = StoredOnEntry
            /\ started' = [started EXCEPT ![l] = now]
            /\ pc' = [pc EXCEPT ![l] = "spawn"]
            /\ UNCHANGED <<metrics, next_run, posted>>
    /\ UNCHANGED <<env, config, world, now, deadline, child, outcome,
                   duration>>

\* run: the overlap check; then either the skip, or execute_run up to the
\* call of run_speedtest: store(true), and start = Instant::now().
OverlapCheck(l) ==
    /\ pc[l] = "check"
    /\ IF SkipsRun(run_in_progress, config.allow_overlap)
       THEN /\ metrics' = [metrics EXCEPT !.runs_total.skipped = @ + 1]
            /\ pc' = [pc EXCEPT ![l] = "calc"]
            /\ next_run' = [next_run EXCEPT ![l] = NoInstant]
            /\ UNCHANGED <<run_in_progress, started>>
       ELSE /\ run_in_progress' = StoredOnEntry
            /\ started' = [started EXCEPT ![l] = now]
            /\ pc' = [pc EXCEPT ![l] = "spawn"]
            /\ UNCHANGED <<metrics, next_run>>
    /\ UNCHANGED <<posted, env, config, world, now, deadline, child, outcome, duration>>

(***************************************************************************)
(* runner.rs: run_speedtest and execute_speedtest.                         *)
(***************************************************************************)
\* The speedtest command of the configuration (config.rs).
Command == "speedtest"

\* Mutant: a failure of spawn() other than NotFound is passed on as the
\* I/O error it is.
SpawnFailure_Unclassified(kind, command) ==
    IF kind = "NotFound"
    THEN Failure("CommandNotFound", command)
    ELSE Failure("Io", kind)

\* Mutant: every failure of spawn() is Internal.
SpawnFailure_AlwaysInternal(kind, command) ==
    Failure("Internal", "Failed to spawn command")

\* execute_speedtest: the map_err of spawn().
SpawnFailure(kind, command) ==
    IF kind = "NotFound"
    THEN Failure("CommandNotFound", command)
    ELSE Failure("Internal", "Failed to spawn command")

\* Mutant: the timeout is reported in milliseconds.
TimeoutFailure_Millis(timeout_seconds) ==
    Failure("Timeout", timeout_seconds * 1000)

\* execute_speedtest: timeout() expired before wait_with_output().
TimeoutFailure(timeout_seconds) == Failure("Timeout", timeout_seconds)

\* Mutant: parsing keeps state: once a payload has been parsed to a result,
\* the next payload is refused.
ClassifyOutput_Remembering(code, stdout) ==
    IF code # Some(0)
    THEN Failure("CommandFailed", IF code = None THEN -1 ELSE Unwrap(code))
    ELSE IF \E l \in Runs : outcome[l].kind = "Success"
    THEN Failure("InvalidOutput", "JSON parse error")
    ELSE parse_speedtest_output(stdout)

\* Mutant: the output is parsed first, and the exit status matters only
\* when the output is no valid payload.
ClassifyOutput_ParsingFirst(code, stdout) ==
    LET parsed == parse_speedtest_output(stdout)
    IN  IF parsed.kind = "Success" \/ code = Some(0) THEN parsed
        ELSE Failure("CommandFailed",
                     IF code = None THEN -1 ELSE Unwrap(code))

\* execute_speedtest: the process has exited and its output is collected.
ClassifyOutput(code, stdout) ==
    IF code # Some(0)
    THEN Failure("CommandFailed", IF code = None THEN -1 ELSE Unwrap(code))
    ELSE parse_speedtest_output(stdout)

\* The future of wait_with_output() is dropped with the Child it owns.  The
\* Command was built without kill_on_drop, so the process is left as it is.
DropChild(c) == [c EXCEPT !.held = FALSE]

\* execute_speedtest: Command::spawn(), then the timeout is armed.
Spawn(l) ==
    /\ pc[l] = "spawn"
    /\ \E r \in world.spawn :
         IF r = "Ok"
         THEN /\ child' = [child EXCEPT ![l] =
                    [state |-> "running", held |-> TRUE, code |-> None,
                     stdout |-> Garbage]]
              /\ deadline' = [deadline EXCEPT ![l] =
                                  now + config.timeout_seconds]
              /\ pc' = [pc EXCEPT ![l] = "wait"]
              /\ UNCHANGED <<outcome, duration>>
         ELSE /\ outcome' = [outcome EXCEPT ![l] = SpawnFailure(r, Command)]
              /\ duration' = [duration EXCEPT ![l] = now - started[l]]
              /\ pc' = [pc EXCEPT ![l] = "report"]
              /\ UNCHANGED <<child, deadline>>
    /\ UNCHANGED <<posted, env, config, world, now, run_in_progress, metrics, next_run, started>>

\* The external process exits, with a status and what it wrote.  The exit
\* of a process whose Child was dropped is seen by nobody.
ChildExits(l) ==
    /\ child[l].state = "running"
    /\ \E code \in world.codes, out \in world.stdouts :
         child' = [child EXCEPT ![l] =
                      IF child[l].held
                      THEN [state |-> "exited", held |-> TRUE,
                            code |-> code, stdout |-> out]
                      ELSE [state |-> "exited", held |-> FALSE,
                            code |-> None, stdout |-> Garbage]]
    /\ UNCHANGED <<posted, env, config, world, now, run_in_progress, metrics, pc, next_run,
                   started, deadline, outcome, duration>>

\* execute_speedtest: wait_with_output() completes inside the timeout (the
\* future is polled before the timer), with the output or an I/O error.
WaitReturns(l) ==
    /\ pc[l] = "wait"
    /\ child[l].state = "exited"
    /\ \E io_ok \in world.wait_ok :
         outcome' = [outcome EXCEPT ![l] =
                        IF io_ok
                        THEN ClassifyOutput(child[l].code, child[l].stdout)
                        ELSE Failure("Internal",
                                     "Failed to wait for command")]
    /\ duration' = [duration EXCEPT ![l] = now - started[l]]
    /\ child' = [child EXCEPT ![l] =
                    [state |-> "exited", held |-> FALSE, code |-> None,
                     stdout |-> Garbage]]
    /\ pc' = [pc EXCEPT ![l] = "report"]
    /\ UNCHANGED <<posted, env, config, world, now, run_in_progress, metrics, next_run, started,
                   deadline>>

\* Mutant: wait_with_output() is awaited without a timeout.
Elapsed_Never(t, expiry) == FALSE

\* tokio::time::timeout: the timer has expired at the instant t.
Elapsed(t, expiry) == t >= expiry

\* execute_speedtest: the timer of timeout() fires first.
WaitTimesOut(l) ==
    /\ pc[l] = "wait"
    /\ child[l].state = "running"
    /\ Elapsed(now, deadline[l])
    /\ outcome' = [outcome EXCEPT ![l] =
                      TimeoutFailure(config.timeout_seconds)]
    /\ duration' = [duration EXCEPT ![l] = now - started[l]]
    /\ child' = [child EXCEPT ![l] = DropChild(child[l])]
    /\ pc' = [pc EXCEPT ![l] = "report"]
    /\ UNCHANGED <<posted, env, config, world, now, run_in_progress, metrics, next_run, started,
                   deadline>>

(***************************************************************************)
(* Scheduler::execute_run after run_speedtest has returned.                *)
(***************************************************************************)
\* Mutant: the status is healthy once any run has succeeded.
health_handler_EverSucceeded(m) ==
    LET last_run == m.run_timestamp_seconds
        status == IF m.runs_total.success > 0 THEN "healthy"
                  ELSE IF last_run > 0 THEN "unhealthy"
                  ELSE "initializing"
    IN  [status |-> status,
         last_run_timestamp |-> last_run,
         last_success_timestamp |->
             IF m.runs_total.success > 0 THEN last_run ELSE 0,
         status_code |-> IF status = "healthy" THEN 200 ELSE 503]

\* health_handler: the response to GET /healthz, read from the gauges.
health_handler(m) ==
    LET last_run == m.run_timestamp_seconds
        last_success == m.last_success
        status == IF last_success > 0 THEN "healthy"
                  ELSE IF last_run > 0 THEN "unhealthy"
                  ELSE "initializing"
    IN  [status |-> status,
         last_run_timestamp |-> last_run,
         last_success_timestamp |-> IF last_success > 0 THEN last_run ELSE 0,
         status_code |-> IF status = "healthy" THEN 200 ELSE 503]

\* Mutant: a failure resets the measurement gauges.
RecordRun_ClearingGauges(m, o, d, timestamp) ==
    LET base == [m EXCEPT !.run_timestamp_seconds = timestamp,
                          !.run_duration_seconds = d]
    IN  IF o.kind = "Success"
        THEN LET r == Unwrap(o.result)
             IN  [base EXCEPT
                    !.last_success = 1,
                    !.runs_total.success = @ + 1,
                    !.download_bps = r.download_bps,
                    !.upload_bps = r.upload_bps,
                    !.latency_seconds = r.latency_seconds,
                    !.jitter_seconds =
                        IF r.jitter_seconds = None THEN @
                        ELSE Unwrap(r.jitter_seconds),
                    !.packet_loss_ratio =
                        IF r.packet_loss_ratio = None THEN @
                        ELSE Unwrap(r.packet_loss_ratio)]
        ELSE [base EXCEPT !.last_success = 0,
                          !.runs_total.failure = @ + 1,
                          !.download_bps = 0,
                          !.upload_bps = 0,
                          !.latency_seconds = MsToSeconds(0),
                          !.jitter_seconds = MsToSeconds(0),
                          !.packet_loss_ratio = 0]

\* Mutant: a failure does not reset last_success.
RecordRun_StickySuccess(m, o, d, timestamp) ==
    LET base == [m EXCEPT !.run_timestamp_seconds = timestamp,
                          !.run_duration_seconds = d]
    IN  IF o.kind = "Success"
        THEN LET r == Unwrap(o.result)
             IN  [base EXCEPT
                    !.last_success = 1,
                    !.runs_total.success = @ + 1,
                    !.download_bps = r.download_bps,
                    !.upload_bps = r.upload_bps,
                    !.latency_seconds = r.latency_seconds,
                    !.jitter_seconds =
                        IF r.jitter_seconds = None THEN @
                        ELSE Unwrap(r.jitter_seconds),
                    !.packet_loss_ratio =
                        IF r.packet_loss_ratio = None THEN @
                        ELSE Unwrap(r.packet_loss_ratio)]
        ELSE [base EXCEPT !.runs_total.failure = @ + 1]

\* execute_run: the metrics of one completed run.
RecordRun(m, o, d, timestamp) ==
    LET base == [m EXCEPT !.run_timestamp_seconds = timestamp,
                          !.run_duration_seconds = d]
    IN  IF o.kind = "Success"
        THEN LET r == Unwrap(o.result)
             IN  [base EXCEPT
                    !.last_success = 1,
                    !.runs_total.success = @ + 1,
                    !.download_bps = r.download_bps,
                    !.upload_bps = r.upload_bps,
                    !.latency_seconds = r.latency_seconds,
                    !.jitter_seconds =
                        IF r.jitter_seconds = None THEN @
                        ELSE Unwrap(r.jitter_seconds),
                    !.packet_loss_ratio =
                        IF r.packet_loss_ratio = None THEN @
                        ELSE Unwrap(r.packet_loss_ratio)]
        ELSE [base EXCEPT !.last_success = 0,
                          !.runs_total.failure = @ + 1]

\* Mutant: a configured notifier is called for every outcome.
Notifies_AnyOutcome(cfg, o) == cfg.ntfy

\* execute_run: whether notifier.notify is called for the outcome.
Notifies(cfg, o) ==
    /\ cfg.ntfy
    /\ IF o.kind = "Success" THEN cfg.notify_on.success
       ELSE cfg.notify_on.failure

\* format!("{:.1}", x) of the fraction x: one decimal, the nearest, a tie
\* going to the even digit.
Fixed1(q) ==
    LET a == IF q.num < 0 THEN 0 - q.num ELSE q.num
        whole == (a * 10) \div q.den
        rest == (a * 10) % q.den
        tenths == IF 2 * rest > q.den \/ (2 * rest = q.den /\ whole % 2 = 1)
                  THEN whole + 1 ELSE whole
    IN  (IF q.num < 0 THEN "-" ELSE "") \o ToString(tenths \div 10)
            \o "." \o ToString(tenths % 10)

\* format_success_message (the pictograph before each label is left out).
format_success_message(result, d) ==
    LET download_mbps == [num |-> result.download_bps, den |-> 1000000]
        upload_mbps == [num |-> result.upload_bps, den |-> 1000000]
        latency_ms == [num |-> result.latency_seconds.num * 1000,
                       den |-> result.latency_seconds.den]
        message == "Download: " \o Fixed1(download_mbps) \o " Mbps\n"
                    \o "Upload: " \o Fixed1(upload_mbps) \o " Mbps\n"
                    \o "Ping: " \o Fixed1(latency_ms) \o " ms\n"
                    \o "Duration: " \o ToString(d) \o "s"
        jitter == IF result.jitter_seconds = None THEN ""
                  ELSE LET j == Unwrap(result.jitter_seconds)
                       IN  "\nJitter: "
                            \o Fixed1([num |-> j.num * 1000, den |-> j.den])
                            \o " ms"
        loss == IF result.packet_loss_ratio = None THEN ""
                ELSE "\nLoss: "
                      \o Fixed1([num |-> Unwrap(result.packet_loss_ratio) * 100,
                                 den |-> 1])
                      \o "%"
    IN  message \o jitter \o loss

\* Mutant: Internal is reported with the words of InvalidOutput.
format_failure_message_SharedPrefix(o) ==
    LET p == Unwrap(o.payload)
    IN  CASE o.category = "Timeout" -> "timeout after " \o ToString(p) \o "s"
          [] o.category = "CommandNotFound" -> "command not found: " \o p
          [] o.category = "CommandFailed" -> "exit=" \o ToString(p)
          [] o.category = "InvalidOutput" -> "invalid output: " \o p
          [] o.category = "MissingFields" -> "missing fields: " \o p
          [] o.category = "Internal" -> "invalid output: " \o p

\* format_failure_message, of the ErrorCategory of a Failure.
format_failure_message(o) ==
    LET p == Unwrap(o.payload)
    IN  CASE o.category = "Timeout" -> "timeout after " \o ToString(p) \o "s"
          [] o.category = "CommandNotFound" -> "command not found: " \o p
          [] o.category = "CommandFailed" -> "exit=" \o ToString(p)
          [] o.category = "InvalidOutput" -> "invalid output: " \o p
          [] o.category = "MissingFields" -> "missing fields: " \o p
          [] o.category = "Internal" -> "internal error: " \o p

\* send_notification: the message of the outcome, sent as the body.
Message(o, d) ==
    IF o.kind = "Success" THEN format_success_message(Unwrap(o.result), d)
    ELSE format_failure_message(o)

\* execute_run: the metrics update, up to the await of notify (if any);
\* notify builds the request and suspends on request.send().
UpdateMetrics(l) ==
    /\ pc[l] = "report"
    /\ metrics' = RecordRun(metrics, outcome[l], duration[l], now)
    /\ pc' = [pc EXCEPT ![l] =
                 IF Notifies(config, outcome[l]) THEN "notify" ELSE "clear"]
    /\ posted' = [posted EXCEPT ![l] =
                     IF Notifies(config, outcome[l])
                     THEN Some(Message(outcome[l], duration[l]))
                     ELSE None]
    /\ UNCHANGED <<env, config, world, now, run_in_progress, next_run, started, deadline,
                   child, outcome, duration>>

\* Mutant: a notification that failed is sent again.
NotifyReturns_Retrying(l) ==
    /\ pc[l] = "notify"
    /\ \E sent \in world.sent :
         /\ metrics' = IF sent
                       THEN [metrics EXCEPT !.notify_total.success = @ + 1]
                       ELSE [metrics EXCEPT !.notify_total.failure = @ + 1]
         /\ pc' = [pc EXCEPT ![l] = IF sent THEN "clear" ELSE "notify"]
         /\ posted' = [posted EXCEPT ![l] = IF sent THEN None ELSE @]
    /\ UNCHANGED <<env, config, world, now, run_in_progress, next_run,
                   started, deadline, child, outcome, duration>>

\* Notifier::notify: send_notification returns Ok or Err (the client has a
\* request timeout), and notify_total counts it.
NotifyReturns(l) ==
    /\ pc[l] = "notify"
    /\ \E sent \in world.sent :
         metrics' = IF sent
                    THEN [metrics EXCEPT !.notify_total.success = @ + 1]
                    ELSE [metrics EXCEPT !.notify_total.failure = @ + 1]
    /\ pc' = [pc EXCEPT ![l] = "clear"]
    /\ posted' = [posted EXCEPT ![l] = None]
    /\ UNCHANGED <<env, config, world, now, run_in_progress, next_run, started, deadline,
                   child, outcome, duration>>

\* execute_run: self.run_in_progress.store(false), and back to the loop:
\* the locals of execute_run and of the iteration are gone.
ClearRunInProgress(l) ==
    /\ pc[l] = "clear"
    /\ run_in_progress' = StoredOnReturn
    /\ pc' = [pc EXCEPT ![l] = LoopAfterRun(outcome[l])]
    /\ next_run' = [next_run EXCEPT ![l] = NoInstant]
    /\ started' = [started EXCEPT ![l] = NoInstant]
    /\ deadline' = [deadline EXCEPT ![l] = NoInstant]
    /\ outcome' = [outcome EXCEPT ![l] = NoOutcome]
    /\ duration' = [duration EXCEPT ![l] = 0]
    /\ UNCHANGED <<posted, env, config, world, now, metrics, child>>

\* The clock advances.
Tick ==
    /\ now < MaxNow
    /\ now' = now + 1
    /\ UNCHANGED <<posted, env, config, world, run_in_progress, metrics, pc, next_run, started,
                   deadline, child, outcome, duration>>

Step(l) ==
    \/ CalculateNextRun(l)
    \/ SleepUntilNextRun(l)
    \/ Wake(l)
    \/ OverlapCheck(l)
    \/ Spawn(l)
    \/ ChildExits(l)
    \/ WaitReturns(l)
    \/ WaitTimesOut(l)
    \/ UpdateMetrics(l)
    \/ NotifyReturns(l)
    \/ ClearRunInProgress(l)

\* The program: main spawns one task that calls run.
Next == Tick \/ \E l \in MainRuns : Step(l)

Spec == Init /\ [][Next]_vars

(***************************************************************************)
(* Two invocations of run on one Scheduler (run takes &self), polled on    *)
(* one thread: they interleave at the await points only, so the overlap    *)
(* check and the store of true are one step.                               *)
(***************************************************************************)
SharedConfigs ==
    {[DefaultConfig EXCEPT !.mode = "Interval",
                           !.interval_seconds = i,
                           !.timeout_seconds = 1,
                           !.allow_overlap = o,
                           !.ntfy = TRUE] :
        i \in {0, 1}, o \in BOOLEAN}

\* The second invocation begins when the first has been started.
SharedStart == StartNow + 1

InitShared ==
    /\ env = NoEnv
    /\ config \in SharedConfigs
    /\ world = PlainWorld
    /\ now = SharedStart
    /\ InitScheduler(Runs)

NextShared == Tick \/ \E l \in Runs : Step(l)

SpecShared == InitShared /\ [][NextShared]_vars

(***************************************************************************)
(* calculate_next_run on its own: a configuration and an instant are       *)
(* drawn, and the first step of run evaluates it.                          *)
(***************************************************************************)
CalcNows == DayTicks..((CalcDays + 1) * DayTicks - 1)

InitCalc ==
    /\ env = NoEnv
    /\ config \in CalcConfigs
    /\ world = AnyWorld
    /\ now \in CalcNows
    /\ InitScheduler(MainRuns)

NextCalc == \E l \in MainRuns : CalculateNextRun(l)

SpecCalc == InitCalc /\ [][NextCalc]_vars

(***************************************************************************)
(* run_speedtest on its own, from its call by execute_run to its return.   *)
(* What spawn() gives, the exit status, the output and whether collecting  *)
(* it fails are fixed for each behaviour, so that the outcome can be       *)
(* compared with them.                                                     *)
(***************************************************************************)
\* A leaf of the payload: absent, negative, zero or positive.
Leaves == {None, Some(0 - 1), Some(0), Some(2)}

RunnerPayloads ==
    {Garbage}
        \cup {Json(d, u, l, j) : d \in Leaves, u \in Leaves, l \in Leaves,
                                j \in {None, Some(0 - 1), Some(4)}}

RunnerWorlds ==
    {[spawn |-> {s}, codes |-> {c}, stdouts |-> {p}, wait_ok |-> {w},
      sent |-> {TRUE}] :
        s \in {"Ok"} \cup SpawnErrors, c \in ExitCodes,
        p \in RunnerPayloads, w \in BOOLEAN}

\* execute_run has stored true and calls run_speedtest.
InitRunner ==
    /\ env = NoEnv
    /\ config \in {[DefaultConfig EXCEPT !.timeout_seconds = t] :
                       t \in 1..MaxTimeout}
    /\ world \in RunnerWorlds
    /\ now = StartNow
    /\ run_in_progress = TRUE
    /\ metrics = NewMetrics
    /\ pc = [l \in Runs |-> IF l \in MainRuns THEN "spawn" ELSE "absent"]
    /\ next_run = [l \in Runs |-> NoInstant]
    /\ started = [l \in Runs |-> IF l \in MainRuns THEN now ELSE NoInstant]
    /\ deadline = [l \in Runs |-> NoInstant]
    /\ child = [l \in Runs |-> NoChild]
    /\ outcome = [l \in Runs |-> NoOutcome]
    /\ duration = [l \in Runs |-> 0]
    /\ posted = [l \in Runs |-> None]

NextRunner ==
    \/ Tick
    \/ \E l \in MainRuns :
          Spawn(l) \/ ChildExits(l) \/ WaitReturns(l) \/ WaitTimesOut(l)

SpecRunner == InitRunner /\ [][NextRunner]_vars

(***************************************************************************)
(* run_speedtest called twice, the calls overlapping or one after the      *)
(* other, with commands that exit with the same status and payload.        *)
(***************************************************************************)
TwiceWorlds ==
    {w \in RunnerWorlds : w.spawn = {"Ok"} /\ w.wait_ok = {TRUE}}

InitTwice ==
    /\ env = NoEnv
    /\ config = [DefaultConfig EXCEPT !.allow_overlap = TRUE,
                                      !.timeout_seconds = 1]
    /\ world \in TwiceWorlds
    /\ now = StartNow
    /\ run_in_progress = TRUE
    /\ metrics = NewMetrics
    /\ pc = [l \in Runs |-> "spawn"]
    /\ next_run = [l \in Runs |-> NoInstant]
    /\ started = [l \in Runs |-> now]
    /\ deadline = [l \in Runs |-> NoInstant]
    /\ child = [l \in Runs |-> NoChild]
    /\ outcome = [l \in Runs |-> NoOutcome]
    /\ duration = [l \in Runs |-> 0]
    /\ posted = [l \in Runs |-> None]

NextTwice ==
    \/ Tick
    \/ \E l \in Runs :
          Spawn(l) \/ ChildExits(l) \/ WaitReturns(l) \/ WaitTimesOut(l)

SpecTwice == InitTwice /\ [][NextTwice]_vars

(***************************************************************************)
(* The application: main reads the environment and, when a Config results, *)
(* spawns the task that runs the loop.                                     *)
(***************************************************************************)
AppEnvs ==
    {e \in Envs :
        /\ e.NETSPEED_SCHEDULE_MODE \in {None, Some("interval")}
        /\ e.NETSPEED_INTERVAL_SECONDS \in {None, Some("2")}
        /\ e.NETSPEED_SCHEDULE = None
        /\ e.NETSPEED_TIMEZONE = None
        /\ e.NETSPEED_ALLOW_OVERLAP = None
        /\ e.NETSPEED_NOTIFY_ON = None}

InitApp ==
    /\ env \in AppEnvs
    /\ config = DefaultConfig
    /\ world = AnyWorld
    /\ now = StartNow
    /\ run_in_progress = FALSE
    /\ metrics = NewMetrics
    /\ pc = [l \in Runs |-> IF l \in MainRuns THEN "startup" ELSE "absent"]
    /\ next_run = [l \in Runs |-> NoInstant]
    /\ started = [l \in Runs |-> NoInstant]
    /\ deadline = [l \in Runs |-> NoInstant]
    /\ child = [l \in Runs |-> NoChild]
    /\ outcome = [l \in Runs |-> NoOutcome]
    /\ duration = [l \in Runs |-> 0]
    /\ posted = [l \in Runs |-> None]

NextApp == Tick \/ \E l \in MainRuns : Startup(l) \/ Step(l)

SpecApp == InitApp /\ [][NextApp]_vars

(***************************************************************************)
(* The notification of a failed run: execute_run from the metrics update   *)
(* on, for every ErrorCategory over a few payloads.                        *)
(***************************************************************************)
\* Strings the variants carry in this program.
Texts ==
    {"", Command, "JSON parse error", "Invalid download speed",
     "download.bandwidth", "Failed to spawn command",
     "Failed to wait for command"}

FailureInputs ==
    {Failure(c, n) : c \in {"Timeout"}, n \in 0..MaxTimeout}
        \cup {Failure(c, n) : c \in {"CommandFailed"},
                              n \in {0 - 1, 1, 2, 12}}
        \cup {Failure(c, t) :
                c \in {"CommandNotFound", "InvalidOutput", "MissingFields",
                       "Internal"},
                t \in Texts}

InitNotify ==
    /\ env = NoEnv
    /\ config \in {c \in RunConfigs : c.ntfy}
    /\ world = AnyWorld
    /\ now = StartNow
    /\ run_in_progress = TRUE
    /\ metrics = NewMetrics
    /\ pc = [l \in Runs |-> IF l \in MainRuns THEN "report" ELSE "absent"]
    /\ next_run = [l \in Runs |-> IF l \in MainRuns THEN now ELSE NoInstant]
    /\ started = [l \in Runs |-> IF l \in MainRuns THEN now ELSE NoInstant]
    /\ deadline = [l \in Runs |-> NoInstant]
    /\ child = [l \in Runs |-> NoChild]
    /\ outcome \in {[l \in Runs |-> IF l \in MainRuns THEN o ELSE NoOutcome] :
                        o \in FailureInputs}
    /\ duration = [l \in Runs |-> 0]
    /\ posted = [l \in Runs |-> None]

NextNotify ==
    \E l \in MainRuns :
        UpdateMetrics(l) \/ NotifyReturns(l) \/ ClearRunInProgress(l)

SpecNotify == InitNotify /\ [][NextNotify]_vars

(***************************************************************************)
(* The start of the process: main reads the environment, and when a        *)
(* Config results the spawned task makes the first scheduling computation. *)
(***************************************************************************)
InitStartup ==
    /\ env \in Envs
    /\ config = DefaultConfig
    /\ world = AnyWorld
    /\ now \in StartNow..MaxNow
    /\ run_in_progress = FALSE
    /\ metrics = NewMetrics
    /\ pc = [l \in Runs |-> IF l \in MainRuns THEN "startup" ELSE "absent"]
    /\ next_run = [l \in Runs |-> NoInstant]
    /\ started = [l \in Runs |-> NoInstant]
    /\ deadline = [l \in Runs |-> NoInstant]
    /\ child = [l \in Runs |-> NoChild]
    /\ outcome = [l \in Runs |-> NoOutcome]
    /\ duration = [l \in Runs |-> 0]
    /\ posted = [l \in Runs |-> None]

NextStartup == \E l \in MainRuns : Startup(l) \/ CalculateNextRun(l)

SpecStartup == InitStartup /\ [][NextStartup]_vars

\* calculate_next_run has returned an instant to run.
Returned(l) == pc[l] = "decide"

\* The local time of the configured zone at the instant t.
LocalNow(t) == LocalOf(config.timezone, t)

\* Whether the local time l is the top of an hour.
TopOfHour(l) == Minute(l) = 0 /\ Second(l) = 0

\* The first instant after t at which the zone z shows the top of an hour.
NextTopOfHour(z, t) ==
    LET tops == {u \in (t + 1)..(t + 2 * HourTicks) : TopOfHour(LocalOf(z, u))}
    IN  CHOOSE u \in tops : \A v \in tops : u <= v

\* C8: in every mode, the instant calculate_next_run returns is strictly
\* after now.
C8_NextRunStrictlyAfterNow ==
    \A l \in MainRuns : Returned(l) => next_run[l] > now

\* C9: in HourlyAligned mode calculate_next_run returns the earliest local
\* top of the hour strictly after now, at every local hour.
C9_EarliestTopOfHour ==
    \A l \in MainRuns :
        (Returned(l) /\ config.mode = "HourlyAligned")
            => next_run[l] = NextTopOfHour(config.timezone, now)

\* Zones whose offset only ever changes by whole hours.
WholeHourShift(z) == ZoneInfo(z).shift % HourTicks = 0

InFlight(l) == pc[l] \in {"spawn", "wait"}

\* execute_run of run l has stored true and has not returned.
InExecuteRun(l) == pc[l] \in {"spawn", "wait", "report", "notify", "clear"}

\* run_speedtest of run l has returned and execute_run has not.
RunnerReturned(l) == pc[l] \in {"report", "notify", "clear"}

\* C1: with allow_overlap = false at most one run is in flight, and
\* run_in_progress is true exactly from the start of execute_run until it
\* returns: false while the loop computes, sleeps or checks.
C1_FlagIffRunInFlight ==
    ~config.allow_overlap =>
        /\ Cardinality({l \in Runs : InFlight(l)}) <= 1
        /\ run_in_progress <=> (\E l \in Runs : InExecuteRun(l))

\* The flag is set while the child of one invocation is being waited for
\* and the other invocation has woken up for its slot.
C1_Witness ==
    /\ ~config.allow_overlap
    /\ pc[1] = "wait"
    /\ child[1].state = "running"
    /\ pc[2] = "check"
    /\ run_in_progress

\* C3: when execute_run returns, whatever the outcome of the run and of the
\* notification, run_in_progress is false.
C3_FlagClearedOnReturn ==
    [][\A l \in MainRuns :
          (InExecuteRun(l) /\ ~InExecuteRun(l)')
              => (~run_in_progress' /\ pc'[l] = "calc")]_vars

\* A run that timed out, whose notification failed, has returned.
C3_Witness ==
    /\ pc[1] = "calc"
    /\ ~run_in_progress
    /\ metrics.runs_total.failure = 1
    /\ metrics.notify_total.failure = 1
    /\ child[1].state = "running"

\* C5: once run_speedtest has returned Timeout, the child of that run is no
\* longer running.
C5_TimedOutChildNotRunning ==
    \A l \in MainRuns :
        (RunnerReturned(l) /\ outcome[l].category = "Timeout")
            => child[l].state # "running"

\* C6: when the wait ends with the child still running at the expiry of the
\* timeout, the outcome is Failure(Timeout(t)), t the configured
\* timeout_seconds.
C6_TimeoutCarriesConfiguredSeconds ==
    [][\A l \in MainRuns :
          (pc[l] = "wait" /\ pc'[l] # "wait" /\ child[l].state = "running")
              => /\ now >= deadline[l]
                 /\ outcome'[l].kind = "Failure"
                 /\ outcome'[l].category = "Timeout"
                 /\ outcome'[l].payload = Some(config.timeout_seconds)]_vars

\* The run of a configuration with the smallest timeout has timed out.
C6_Witness ==
    /\ pc[1] = "report"
    /\ outcome[1].category = "Timeout"
    /\ config.timeout_seconds = 1
    /\ outcome[1].payload = Some(1)
    /\ child[1].state = "running"

\* C2: a trigger that finds run_in_progress set is counted as skipped and
\* starts no run when allow_overlap is false, and starts a run when
\* allow_overlap is true.
C2_TriggerDuringRun ==
    [][\A l \in Runs :
          (pc[l] = "check" /\ pc'[l] # "check" /\ run_in_progress)
              => IF ~config.allow_overlap
                 THEN /\ metrics'.runs_total.skipped
                            = metrics.runs_total.skipped + 1
                      /\ pc'[l] = "calc"
                      /\ started' = started
                      /\ child' = child
                 ELSE /\ pc'[l] = "spawn"
                      /\ metrics' = metrics]_vars

\* The second invocation was skipped while the first waits for its child.
C2_Witness ==
    /\ ~config.allow_overlap
    /\ run_in_progress
    /\ pc[1] = "wait"
    /\ pc[2] = "calc"
    /\ metrics.runs_total.skipped = 1

(***************************************************************************)
(* Progress.  The runtime polls a task that can continue, the clock        *)
(* advances, and the notification request ends (the client has a timeout); *)
(* the external process need not ever exit.                                *)
(***************************************************************************)
Progress(l) ==
    /\ WF_vars(CalculateNextRun(l))
    /\ WF_vars(SleepUntilNextRun(l))
    /\ WF_vars(Wake(l))
    /\ WF_vars(OverlapCheck(l))
    /\ WF_vars(Spawn(l))
    /\ WF_vars(WaitReturns(l))
    /\ WF_vars(WaitTimesOut(l))
    /\ WF_vars(UpdateMetrics(l))
    /\ WF_vars(NotifyReturns(l))
    /\ WF_vars(ClearRunInProgress(l))

FairSpec == Spec /\ WF_vars(Tick) /\ \A l \in MainRuns : Progress(l)

\* Two invocations under the non-overlapping policy, so that slots are
\* skipped, with every category of failure.
InitSharedFair ==
    /\ env = NoEnv
    /\ config \in {c \in SharedConfigs : ~c.allow_overlap}
    /\ world = EachFailureWorld
    /\ now = SharedStart
    /\ InitScheduler(Runs)

FairSpecShared ==
    /\ InitSharedFair
    /\ [][NextShared]_vars
    /\ WF_vars(Tick)
    /\ \A l \in Runs : Progress(l)

\* The bounds of the model stop run l: the slots are used up, or the
\* instant it waits for lies after the last instant of the clock.
AtBounds(l) ==
    \/ pc[l] = "calc" /\ RunsCounted >= MaxRuns
    \/ pc[l] = "sleep" /\ next_run[l] > MaxNow
    \/ pc[l] = "wait" /\ deadline[l] > MaxNow

\* C4: after the overlap check of a slot, whether the slot is skipped or
\* run and whatever the outcome of the run, the loop computes a next run
\* instant again, and from there it starts another slot.
C4_LoopContinues ==
    \A l \in Runs :
        /\ (pc[l] \in {"check", "report"})
                ~> (pc[l] = "decide" \/ AtBounds(l))
        /\ (pc[l] = "decide") ~> (pc[l] = "check" \/ AtBounds(l))

\* After a skipped slot and a failed run, another slot has begun.
C4_Witness ==
    /\ metrics.runs_total.skipped = 1
    /\ metrics.runs_total.failure = 1
    /\ \E l \in Runs : pc[l] = "check"

\* C7: a run whose child never exits still returns, at the expiry of the
\* timeout, and the loop reaches its next scheduling decision.
C7_HungChildDoesNotBlock ==
    \A l \in MainRuns :
        (pc[l] = "wait" /\ deadline[l] <= MaxNow) ~> (pc[l] = "calc")

\* The loop is back at its scheduling decision and the child of the run
\* that timed out has still not exited.
C7_Witness ==
    /\ pc[1] = "calc"
    /\ child[1].state = "running"
    /\ metrics.runs_total.failure = 1
    /\ metrics.last_success = 0

(***************************************************************************)
(* The interval policy.                                                    *)
(***************************************************************************)
\* C11: in Interval mode every call of calculate_next_run, the first and
\* each later one, returns the instant of the call plus the interval,
\* wherever that instant lies on the wall clock and whatever was returned
\* before.
C11_IntervalFromNow ==
    [][\A l \in MainRuns :
          (pc[l] = "calc" /\ pc'[l] # "calc" /\ config.mode = "Interval")
              => /\ pc'[l] = "decide"
                 /\ next_run'[l] = now + config.interval_seconds]_vars

\* A later call, after a run, at an instant that is not a multiple of the
\* interval.
C11_Witness ==
    /\ config.mode = "Interval"
    /\ config.interval_seconds = MaxInterval
    /\ RunsCounted >= 1
    /\ pc[1] = "decide"
    /\ now % MaxInterval # 0
    /\ next_run[1] = now + MaxInterval

(***************************************************************************)
(* The cron policy and the start of the process.                           *)
(***************************************************************************)
\* The five-field expression of the tests: minute 0 of every hour.
HourlyFiveField == "0 * * * *"

\* C12: in Cron mode with the five-field expression "0 * * * *",
\* calculate_next_run returns the earliest firing of the expression after
\* now in the configured zone: the next local top of the hour.
C12_FiveFieldCronNextFiring ==
    \A l \in MainRuns :
        (/\ pc[l] # "calc"
         /\ config.mode = "Cron"
         /\ config.cron_expression = Some(HourlyFiveField))
            => /\ Returned(l)
               /\ next_run[l] = NextTopOfHour(config.timezone, now)

\* Evaluation of the expression e at t in the zone z gives no next time.
NoNextTime(e, z, t) ==
    IF CronParses(e) THEN Upcoming(e, z, t) = NoInstant ELSE TRUE

\* C13: in Cron mode, when the expression is malformed or its schedule has
\* no upcoming firing, calculate_next_run returns now + 1 minute and the
\* loop goes on to its scheduling decision.
C13_CronFallbackOneMinute ==
    \A l \in MainRuns :
        (/\ pc[l] # "calc"
         /\ config.mode = "Cron"
         /\ config.cron_expression # None
         /\ NoNextTime(Unwrap(config.cron_expression), config.timezone, now))
            => /\ Returned(l)
               /\ next_run[l] = now + MinuteTicks

\* NETSPEED_TIMEZONE is set to a text that is no time zone.
InvalidTimezone(e) ==
    /\ e.NETSPEED_TIMEZONE # None
    /\ ~ParsesAsTz(Unwrap(e.NETSPEED_TIMEZONE))

\* Cron mode is asked for and NETSPEED_SCHEDULE is unset or is not a cron
\* expression of any number of fields.
InvalidCron(e) ==
    /\ e.NETSPEED_SCHEDULE_MODE = Some("cron")
    /\ \/ e.NETSPEED_SCHEDULE = None
       \/ ~CronFields(Unwrap(e.NETSPEED_SCHEDULE)).wellformed

\* C14: with an invalid or missing cron expression in cron mode, or an
\* invalid time zone, the start of the process ends with the error of
\* Config::from_env and the scheduler loop never begins.
C14_InvalidCronOrTimezoneRejected ==
    \A l \in MainRuns :
        (pc[l] # "startup" /\ (InvalidTimezone(env) \/ InvalidCron(env)))
            => pc[l] = "exited"

\* C15: for every configuration Config::from_env accepts, no call of
\* calculate_next_run in the loop panics: the scheduler task is never
\* ended by a scheduling computation.
C15_SchedulingNeverFaults ==
    \A l \in MainRuns : pc[l] # "panicked"

(***************************************************************************)
(* The outcome of run_speedtest against what the command did.              *)
(***************************************************************************)
\* What the behaviour fixes: the result of spawn(), the exit status, the
\* standard output, and whether collecting the output succeeds.
SoleSpawn == CHOOSE x \in world.spawn : TRUE
SoleCode == CHOOSE x \in world.codes : TRUE
SoleStdout == CHOOSE x \in world.stdouts : TRUE
SoleWaitOk == CHOOSE x \in world.wait_ok : TRUE

\* run_speedtest of run l has returned after the process had exited within
\* the timeout and its output had been collected.
Collected(l) ==
    /\ pc[l] = "report"
    /\ SoleSpawn = "Ok"
    /\ SoleWaitOk
    /\ outcome[l].category # "Timeout"

\* The names of the required leaves the payload lacks, in the order
\* download, upload, latency.
MissingLeaves(json) ==
    (IF json.download = None THEN <<"download.bandwidth">> ELSE <<>>)
        \o (IF json.upload = None THEN <<"upload.bandwidth">> ELSE <<>>)
        \o (IF json.latency = None THEN <<"ping.latency">> ELSE <<>>)

RECURSIVE CommaJoined(_)
CommaJoined(names) ==
    IF Len(names) = 1 THEN Head(names)
    ELSE Head(names) \o "," \o CommaJoined(Tail(names))

\* The process exited with success and wrote a JSON object that lacks a
\* required leaf.
LacksLeaf(l) ==
    /\ Collected(l)
    /\ SoleCode = Some(0)
    /\ SoleStdout.json
    /\ MissingLeaves(SoleStdout) # <<>>

\* C16: for a JSON payload lacking required leaves the outcome is
\* MissingFields carrying the comma-joined names of all the absent leaves.
C16_AllMissingLeavesNamed ==
    \A l \in MainRuns :
        LacksLeaf(l)
            => outcome[l] = Failure("MissingFields",
                                    CommaJoined(MissingLeaves(SoleStdout)))

\* C17: for a JSON payload lacking a required leaf the outcome is
\* MissingFields, never Success or InvalidOutput even if a present value
\* is negative, and it names the first absent leaf in the order download,
\* upload, latency.
C17_FirstMissingLeafNamed ==
    \A l \in MainRuns :
        LacksLeaf(l)
            => outcome[l] = Failure("MissingFields",
                                    Head(MissingLeaves(SoleStdout)))

\* A negative download with upload and latency absent names the upload.
C17_Witness ==
    /\ LacksLeaf(1)
    /\ SoleStdout = Json(Some(0 - 1), None, None, None)
    /\ outcome[1].category = "MissingFields"
    /\ outcome[1].payload = Some("upload.bandwidth")

\* C18, as stated: output that is not JSON gives InvalidOutput whatever
\* else is true of the run whose output was collected.
C18_NotJsonAlwaysInvalidOutput ==
    \A l \in MainRuns :
        (Collected(l) /\ ~SoleStdout.json)
            => outcome[l].category = "InvalidOutput"

\* C18, amended: when the process has exited with success, output that is
\* not JSON gives InvalidOutput; the JSON check comes before the checks of
\* the leaves and of the ranges.
C18_NotJsonInvalidOutputOnSuccess ==
    \A l \in MainRuns :
        (Collected(l) /\ SoleCode = Some(0) /\ ~SoleStdout.json)
            => outcome[l] = Failure("InvalidOutput", "JSON parse error")

\* A successful exit with output that is not JSON has been classified.
C18_Witness ==
    /\ Collected(1)
    /\ SoleCode = Some(0)
    /\ SoleStdout = Garbage
    /\ outcome[1].category = "InvalidOutput"

\* C19: when spawn() fails, the outcome is CommandNotFound with the command
\* name if the executable was not found and Internal otherwise, and
\* run_speedtest returns at once: no child, no timeout armed, no wait.
C19_SpawnFailureClassified ==
    \A l \in MainRuns :
        (pc[l] # "spawn" /\ SoleSpawn # "Ok")
            => /\ pc[l] = "report"
               /\ outcome[l] =
                    IF SoleSpawn = "NotFound"
                    THEN Failure("CommandNotFound", Command)
                    ELSE Failure("Internal", "Failed to spawn command")
               /\ child[l] = NoChild
               /\ deadline[l] = NoInstant

\* The executable was not found, and the run has returned.
C19_Witness ==
    /\ SoleSpawn = "NotFound"
    /\ pc[1] = "report"
    /\ outcome[1].category = "CommandNotFound"
    /\ outcome[1].payload = Some("speedtest")
    /\ child[1] = NoChild

\* C20: when the process exits within the timeout with a failing status,
\* the outcome is CommandFailed with the exit code, or with -1 when there
\* is no code, whatever the standard output holds.
C20_FailingExitIsCommandFailed ==
    \A l \in MainRuns :
        (Collected(l) /\ SoleCode # Some(0))
            => outcome[l] =
                 Failure("CommandFailed",
                         IF SoleCode = None THEN 0 - 1 ELSE Unwrap(SoleCode))

\* A process ended by a signal after writing a valid payload.
C20_Witness ==
    /\ Collected(1)
    /\ SoleCode = None
    /\ SoleStdout = Json(Some(2), Some(2), Some(2), Some(4))
    /\ outcome[1].category = "CommandFailed"
    /\ outcome[1].payload = Some(0 - 1)

(***************************************************************************)
(* The outcomes of run_speedtest and the values of a result.               *)
(***************************************************************************)
\* RunOutcome: Success with a result, or Failure with one of the six
\* categories.
IsRunOutcome(o) ==
    \/ o.kind = "Success" /\ o.result # None /\ o.category = ""
    \/ o.kind = "Failure" /\ o.result = None /\ o.category \in Categories

\* C21: run_speedtest only ever returns, with one RunOutcome: a failed
\* spawn, a failed wait, a timeout, a failing exit and a bad payload all end
\* as a Failure of one of the six categories, and nothing else leaves it.
C21_OneOutcomeOfTheTaxonomy ==
    \A l \in MainRuns :
        /\ pc[l] \in {"spawn", "wait", "report"}
        /\ pc[l] = "report" => IsRunOutcome(outcome[l])
        /\ pc[l] # "report" => outcome[l] = NoOutcome

\* Collecting the output of the exited process failed: Internal.
C21_Witness ==
    /\ pc[1] = "report"
    /\ SoleSpawn = "Ok"
    /\ ~SoleWaitOk
    /\ outcome[1].category = "Internal"
    /\ child[1].state = "exited"

\* The process exited with success and its payload was parsed to a result.
Parsed(l) ==
    /\ Collected(l)
    /\ SoleCode = Some(0)
    /\ outcome[l].kind = "Success"

\* The quotient q is the value x divided by 1000.
IsThousandth(q, x) == q.num * 1000 = x * q.den

\* C22: a result holds 8 times the download and upload bandwidths, a
\* thousandth of the latency, a thousandth of the jitter when the payload
\* has one and None when it has none, and no packet loss.
C22_UnitsNormalized ==
    \A l \in MainRuns :
        Parsed(l)
            => LET r == Unwrap(outcome[l].result)
                   in == SoleStdout
               IN  /\ r.download_bps = 8 * Unwrap(in.download)
                   /\ r.upload_bps = 8 * Unwrap(in.upload)
                   /\ IsThousandth(r.latency_seconds, Unwrap(in.latency))
                   /\ in.jitter = None => r.jitter_seconds = None
                   /\ in.jitter # None =>
                        /\ r.jitter_seconds # None
                        /\ IsThousandth(Unwrap(r.jitter_seconds),
                                        Unwrap(in.jitter))
                   /\ r.packet_loss_ratio = None

\* A payload with a jitter was parsed.
C22_Witness ==
    /\ Parsed(1)
    /\ SoleStdout = Json(Some(2), Some(2), Some(2), Some(4))
    /\ Unwrap(outcome[1].result).download_bps = 16

\* The process exited with success and wrote a JSON object with all the
\* required leaves.
Complete(l) ==
    /\ Collected(l)
    /\ SoleCode = Some(0)
    /\ SoleStdout.json
    /\ MissingLeaves(SoleStdout) = <<>>

\* C23: a complete payload with a negative download, upload or latency
\* gives InvalidOutput for the first of them in that order, and otherwise
\* a Success, whose download, upload and latency are not negative; the
\* jitter is not looked at.
C23_RangesValidated ==
    \A l \in MainRuns :
        /\ Complete(l) =>
              IF Unwrap(SoleStdout.download) < 0
              THEN outcome[l] =
                     Failure("InvalidOutput", "Invalid download speed")
              ELSE IF Unwrap(SoleStdout.upload) < 0
              THEN outcome[l] =
                     Failure("InvalidOutput", "Invalid upload speed")
              ELSE IF Unwrap(SoleStdout.latency) < 0
              THEN outcome[l] = Failure("InvalidOutput", "Invalid latency")
              ELSE outcome[l].kind = "Success"
        /\ outcome[l].kind = "Success" =>
              LET r == Unwrap(outcome[l].result)
              IN  /\ r.download_bps >= 0
                  /\ r.upload_bps >= 0
                  /\ r.latency_seconds.num >= 0
                  /\ r.latency_seconds.den > 0

\* A payload with a negative jitter was accepted.
C23_Witness ==
    /\ Complete(1)
    /\ SoleStdout.jitter = Some(0 - 1)
    /\ outcome[1].kind = "Success"
    /\ Unwrap(Unwrap(outcome[1].result).jitter_seconds).num < 0

Records(l) == pc[l] = "report" /\ pc'[l] # "report"

\* execute_run of run l has updated the metrics and has not returned.
Recorded(l) == pc[l] \in {"notify", "clear"}

\* C25: a completed run sets last_success to 1 on Success and 0 on Failure,
\* adds one to the counter of its outcome and to no other, and sets the
\* timestamp and the duration of the last run; no other step touches them,
\* so last_success is that of the most recent completed run.
C25_RunMetricsRecorded ==
    [][\A l \in MainRuns :
          IF Records(l)
          THEN LET label == IF outcome[l].kind = "Success" THEN "success"
                            ELSE "failure"
               IN  /\ metrics'.last_success =
                        (IF outcome[l].kind = "Success" THEN 1 ELSE 0)
                   /\ metrics'.runs_total =
                        [metrics.runs_total EXCEPT ![label] = @ + 1]
                   /\ metrics'.run_timestamp_seconds = now
                   /\ metrics'.run_duration_seconds = duration[l]
          ELSE /\ metrics'.last_success = metrics.last_success
               /\ metrics'.runs_total.success = metrics.runs_total.success
               /\ metrics'.runs_total.failure = metrics.runs_total.failure
               /\ metrics'.run_timestamp_seconds
                    = metrics.run_timestamp_seconds
               /\ metrics'.run_duration_seconds
                    = metrics.run_duration_seconds]_vars

\* A success and then a failure have been recorded.
C25_Witness ==
    /\ Recorded(1)
    /\ outcome[1].kind = "Failure"
    /\ metrics.runs_total.success = 1
    /\ metrics.runs_total.failure = 1
    /\ metrics.last_success = 0
    /\ metrics.download_bps > 0

\* C26: once a successful run is recorded, every measurement gauge shows
\* the value of that run's result, or no value where the result has none:
\* none shows the value of an earlier run.
C26_GaugesOfThisRun ==
    \A l \in MainRuns :
        (Recorded(l) /\ outcome[l].kind = "Success")
            => LET r == Unwrap(outcome[l].result)
               IN  /\ metrics.download_bps = r.download_bps
                   /\ metrics.upload_bps = r.upload_bps
                   /\ metrics.latency_seconds = r.latency_seconds
                   /\ metrics.jitter_seconds =
                        (IF r.jitter_seconds = None
                         THEN NewMetrics.jitter_seconds
                         ELSE Unwrap(r.jitter_seconds))
                   /\ metrics.packet_loss_ratio =
                        (IF r.packet_loss_ratio = None
                         THEN NewMetrics.packet_loss_ratio
                         ELSE Unwrap(r.packet_loss_ratio))

\* C27: the scheduler does not wait for the notification request: no state
\* has the run suspended on the request with the overlap flag still set.
C27_NotificationNotAwaited ==
    \A l \in MainRuns : pc[l] = "notify" => ~run_in_progress

\* The metrics without the counters of the notifier.
RunMetrics(m) == [m EXCEPT !.notify_total = NewMetrics.notify_total]

\* C28: the return of notify, with success or with failure, ends the
\* notification (no retry), counts it once in notify_total and changes
\* nothing else: the flag, the run metrics and what the loop does next are
\* the same either way, and the next run instant is computed from the
\* configuration and the clock alone.
C28_NotifierFailureChangesNothing ==
    [][\A l \in MainRuns :
          /\ (pc[l] = "notify" /\ <<pc, metrics>>' # <<pc, metrics>>)
                => /\ pc'[l] = "clear"
                   /\ RunMetrics(metrics') = RunMetrics(metrics)
                   /\ metrics'.notify_total.success
                        + metrics'.notify_total.failure
                        = metrics.notify_total.success
                            + metrics.notify_total.failure + 1
                   /\ UNCHANGED <<config, run_in_progress, next_run, started,
                                  deadline, child, outcome, duration>>
          /\ (pc[l] = "clear" /\ pc'[l] # "clear")
                => ~run_in_progress' /\ pc'[l] = "calc"
          /\ (pc[l] = "calc" /\ pc'[l] = "decide")
                => next_run'[l] = calculate_next_run(config, now)]_vars

\* After a notification that failed, the next run instant is computed.
C28_Witness ==
    /\ pc[1] = "decide"
    /\ ~run_in_progress
    /\ metrics.notify_total.failure = 1
    /\ metrics.notify_total.success = 0
    /\ metrics.runs_total.success = 1

\* C29: the Runner is invoked only from the overlap check of a slot whose
\* instant was computed in this iteration and has come; after a run the
\* loop goes back to computing the next instant.
C29_NoRetryWithinSlot ==
    [][\A l \in MainRuns :
          /\ (pc'[l] = "spawn" /\ pc[l] # "spawn")
                => /\ pc[l] = "check"
                   /\ next_run[l] # NoInstant
                   /\ now >= next_run[l]
          /\ (pc[l] = "clear" /\ pc'[l] # "clear") => pc'[l] = "calc"
          /\ (pc[l] = "calc" /\ pc'[l] # "calc")
                => pc'[l] \in {"decide", "panicked"}
          /\ (pc[l] = "decide" /\ pc'[l] # "decide")
                => pc'[l] \in {"sleep", "check"}
          /\ (pc[l] = "sleep" /\ pc'[l] # "sleep") => pc'[l] = "check"]_vars

\* After a failed run, the Runner is invoked for the next slot.
C29_Witness ==
    /\ pc[1] = "spawn"
    /\ metrics.runs_total.failure = 1
    /\ metrics.runs_total.success = 0
    /\ metrics.last_success = 0
    /\ next_run[1] # NoInstant
    /\ started[1] >= next_run[1]

\* The request of the notification of run l is in flight.
Posting(l) == pc[l] = "notify" /\ posted[l] # None

\* C30: the body of a failure notification is the message of the category
\* of the outcome: "timeout after <n>s" for Timeout(n), "exit=<c>" for
\* CommandFailed(c), and never the message of a category of another
\* variant, whatever that one carries.
C30_FailureMessageOfCategory ==
    \A l \in MainRuns :
        (pc[l] = "notify" /\ outcome[l].kind = "Failure")
            => LET o == outcome[l]
                   p == Unwrap(o.payload)
               IN  /\ Posting(l)
                   /\ o.category = "Timeout"
                        => posted[l]
                            = Some("timeout after " \o ToString(p) \o "s")
                   /\ o.category = "CommandFailed"
                        => posted[l] = Some("exit=" \o ToString(p))
                   /\ \A o2 \in FailureInputs :
                        o2.category # o.category
                            => posted[l] # Some(format_failure_message(o2))
                   /\ \A o2 \in FailureInputs :
                        o2 = o => posted[l] = Some(format_failure_message(o2))

\* The notification of a timeout of two seconds is in flight.
C30_Witness ==
    /\ Posting(1)
    /\ outcome[1] = Failure("Timeout", 2)
    /\ posted[1] = Some("timeout after 2s")

(***************************************************************************)
(* The health endpoint.                                                    *)
(***************************************************************************)
\* The status and the code of the response GET /healthz would get now.
Health == [status |-> health_handler(metrics).status,
           code |-> health_handler(metrics).status_code]

Healthy == [status |-> "healthy", code |-> 200]
Unhealthy == [status |-> "unhealthy", code |-> 503]
Initializing == [status |-> "initializing", code |-> 503]

\* No run has been recorded by execute_run.
NoRunCompleted ==
    metrics.runs_total.success + metrics.runs_total.failure = 0

\* C31: the health endpoint reports initializing/503 exactly as long as no
\* run has completed; the recording of a run makes it healthy/200 when the
\* run succeeded and unhealthy/503 when it failed, and no other step, in
\* particular no skipped slot, changes what it reports.
C31_HealthOfLatestRun ==
    /\ [](NoRunCompleted <=> Health = Initializing)
    /\ [][\A l \in Runs :
             /\ Records(l)
                  => Health' = (IF outcome[l].kind = "Success" THEN Healthy
                                ELSE Unhealthy)
             /\ (\A k \in Runs : ~Records(k)) => Health' = Health]_vars

\* A slot has been skipped while the latest completed run was a success
\* that followed a failure.
C31_Witness ==
    /\ metrics.runs_total.skipped > 0
    /\ metrics.runs_total.failure > 0
    /\ metrics.runs_total.success > 0
    /\ Health = Healthy

\* main has a Config and the task of run l exists.
Configured(l) == pc[l] \notin {"startup", "exited", "absent"}

\* NETSPEED_TIMEOUT_SECONDS is set to a text that reads as zero.
ZeroTimeout == env.NETSPEED_TIMEOUT_SECONDS = Some("0")

\* C32: with a timeout of 0 seconds in the environment from_env returns an
\* error and main ends; every Config it returns has timeout_seconds >= 1,
\* and the Runner waits for its command with a timeout of at least one
\* second.
C32_ZeroTimeoutRejected ==
    \A l \in MainRuns :
        /\ (ZeroTimeout /\ pc[l] # "startup") => pc[l] = "exited"
        /\ Configured(l) => config.timeout_seconds >= 1
        /\ pc[l] = "wait" => deadline[l] >= started[l] + 1

\* main has ended on the timeout of 0 seconds.
C32_Witness ==
    /\ pc[1] = "exited"
    /\ ZeroTimeout
    /\ env.NETSPEED_SCHEDULE_MODE = Some("interval")
    /\ config = DefaultConfig

(***************************************************************************)
(* The hour that daylight-saving time skips or repeats.                    *)
(***************************************************************************)
\* The local time of the top of the hour that follows the local time l.
NextLocalHour(l) == l - (l % HourTicks) + HourTicks

\* The instants at which the zone shows the top of the hour after now.
NextHourInstants == FromLocal(config.timezone, NextLocalHour(LocalNow(now)))

\* C33: in HourlyAligned mode, when the top of the local hour after now is
\* the local time of no instant (skipped) or of two (repeated),
\* calculate_next_run returns now + 1 hour.
C33_UnresolvedHourFallsBack ==
    \A l \in MainRuns :
        (Returned(l) /\ config.mode = "HourlyAligned"
                     /\ Cardinality(NextHourInstants) # 1)
            => next_run[l] = now + HourTicks

\* now is inside the hour before the one that is skipped.
C33_Witness ==
    /\ Returned(1)
    /\ config.mode = "HourlyAligned"
    /\ config.timezone = "Europe/Brussels"
    /\ ~TopOfHour(LocalNow(now))
    /\ NextHourInstants = {}
    /\ next_run[1] = now + HourTicks

(***************************************************************************)
(* The order of the steps of an iteration, and the skipped slot.           *)
(***************************************************************************)
\* C34: the overlap flag is cleared before the run is published: once the
\* metrics of a run are recorded, and while its notification is sent, the
\* flag is false.
C34_FlagClearedBeforePublishing ==
    \A l \in MainRuns : Recorded(l) => ~run_in_progress

\* Run l leaves the overlap check by the skip branch in this step.
Skips(l) ==
    /\ pc[l] = "check"
    /\ pc'[l] # "check"
    /\ run_in_progress
    /\ ~config.allow_overlap

\* C35: a skipped slot adds one to runs_total{skipped} and changes nothing
\* else: no notification is sent, no other metric changes, and the overlap
\* flag stays as it is; the loop goes on to the next slot.
C35_SkipChangesOnlyItsCounter ==
    [][\A l \in Runs :
          Skips(l)
              => /\ metrics' = [metrics EXCEPT !.runs_total.skipped = @ + 1]
                 /\ pc'[l] = "calc"
                 /\ \A k \in Runs \ {l} : pc'[k] = pc[k]
                 /\ UNCHANGED <<run_in_progress, posted, config, started,
                                deadline, child, outcome, duration>>]_vars

\* A slot was skipped with failure notifications enabled, after a run had
\* set the gauges and while a later run is in flight.
C35_Witness ==
    /\ config.ntfy
    /\ config.notify_on.failure
    /\ metrics.runs_total.skipped = 1
    /\ metrics.runs_total.success = 1
    /\ metrics.last_success = 1
    /\ metrics.download_bps > 0
    /\ metrics.notify_total.success + metrics.notify_total.failure = 1
    /\ run_in_progress
    /\ \E l \in Runs : InFlight(l)
    /\ \A l \in Runs : posted[l] = None

\* Run l is at the overlap check of a slot, or runs it.
InSlot(l) == pc[l] \in {"check", "spawn", "wait"}

\* C36: the overlap check and the run of a slot never begin before the
\* instant computed for the slot; the loop sleeps exactly when that instant
\* is in the future, and goes to the overlap check at once when it is not.
C36_SuspendsUntilInstant ==
    /\ [](\A l \in MainRuns :
            InSlot(l) => next_run[l] # NoInstant /\ now >= next_run[l])
    /\ [][\A l \in MainRuns :
             /\ (pc[l] = "decide" /\ pc'[l] # "decide")
                  => /\ next_run[l] > now => pc'[l] = "sleep"
                     /\ next_run[l] <= now => pc'[l] = "check"
                     /\ now' = now
             /\ (pc[l] = "sleep" /\ pc'[l] # "sleep")
                  => pc'[l] = "check" /\ now >= next_run[l]
             /\ (pc'[l] = "check" /\ pc[l] # "check")
                  => pc[l] \in {"decide", "sleep"}]_vars

\* The instant computed is now (an interval of 0 seconds), and the slot is
\* at its overlap check without a sleep.
C36_Witness ==
    /\ pc[1] = "check"
    /\ config.mode = "Interval"
    /\ config.interval_seconds = 0
    /\ next_run[1] = now
    /\ metrics.runs_total.success = 1

(***************************************************************************)
(* The one loop main spawns.                                               *)
(***************************************************************************)
\* C37: in the one loop main spawns, run_in_progress is false at every
\* overlap check, whatever allow_overlap is, and no slot is ever counted
\* as skipped.
C37_FlagFalseAtEveryCheck ==
    /\ \A l \in MainRuns : pc[l] = "check" => ~run_in_progress
    /\ metrics.runs_total.skipped = 0

\* The second overlap check of a loop that forbids overlap, after a run
\* that failed.
C37_Witness ==
    /\ pc[1] = "check"
    /\ ~config.allow_overlap
    /\ ~run_in_progress
    /\ metrics.runs_total.failure = 1
    /\ metrics.runs_total.success = 0

\* Run l enters execute_run in this step.
Starts(l) == pc[l] = "check" /\ pc'[l] = "spawn"

\* C38: whatever allow_overlap is, at most one execute_run is in progress,
\* and a run starts only when the one before has returned: its metrics
\* are recorded, its notification is over and the flag is cleared.
C38_RunsSequential ==
    /\ [](Cardinality({l \in Runs : InExecuteRun(l)}) <= 1)
    /\ [][\A l \in MainRuns :
             Starts(l)
                 => /\ ~run_in_progress
                    /\ \A k \in Runs : ~InExecuteRun(k)
                    /\ outcome[l] = NoOutcome
                    /\ posted[l] = None
                    /\ metrics.runs_total.skipped = 0]_vars

\* With overlap allowed, the second run is in flight after the first has
\* been recorded and notified.
C38_Witness ==
    /\ config.allow_overlap
    /\ pc[1] = "wait"
    /\ run_in_progress
    /\ metrics.runs_total.success = 1
    /\ metrics.notify_total.success = 1
    /\ posted[1] = None

(***************************************************************************)
(* What a failed run records, and how often a run is notified.             *)
(***************************************************************************)
\* The measurement gauges.
Gauges(m) ==
    <<m.download_bps, m.upload_bps, m.latency_seconds, m.jitter_seconds,
      m.packet_loss_ratio>>

\* C39: the recording of a failed run leaves the five measurement gauges
\* as they were, sets last_success to 0, adds one to runs_total{failure}
\* and sets the timestamp and the duration of the last run.
C39_FailureKeepsGauges ==
    [][\A l \in MainRuns :
          (Records(l) /\ outcome[l].kind = "Failure")
              => /\ Gauges(metrics') = Gauges(metrics)
                 /\ metrics'.last_success = 0
                 /\ metrics'.runs_total.failure
                        = metrics.runs_total.failure + 1
                 /\ metrics'.run_timestamp_seconds = now
                 /\ metrics'.run_duration_seconds = duration[l]]_vars

\* A run has timed out after a success, and the gauges are not the initial
\* ones.
C39_Witness ==
    /\ pc[1] = "clear"
    /\ outcome[1].category = "Timeout"
    /\ metrics.last_success = 0
    /\ metrics.upload_bps > 0
    /\ Gauges(metrics) # Gauges(NewMetrics)
    /\ metrics.run_duration_seconds = duration[1]
    /\ duration[1] > 0

\* The count of the notifications that have returned.
NotifyCount(m) == m.notify_total.success + m.notify_total.failure

\* C40: the notifier is invoked for a completed run exactly when one is
\* configured and notify_on enables the kind of the outcome, only at the
\* recording of the run and so at most once per run; its return adds one to
\* exactly one of notify_total{success} and notify_total{failure}, and
\* nothing else changes notify_total.
C40_OneNotificationPerEnabledRun ==
    [][\A l \in MainRuns :
          /\ Records(l)
               => /\ pc'[l] \in {"notify", "clear"}
                  /\ pc'[l] = "notify"
                       <=> /\ config.ntfy
                           /\ IF outcome[l].kind = "Success"
                              THEN config.notify_on.success
                              ELSE config.notify_on.failure
                  /\ pc'[l] = "notify" <=> posted'[l] # None
          /\ (pc'[l] = "notify" /\ pc[l] # "notify") => pc[l] = "report"
          /\ (pc[l] = "notify" /\ pc'[l] # "notify")
               => /\ NotifyCount(metrics') = NotifyCount(metrics) + 1
                  /\ metrics'.notify_total.success
                        \in {metrics.notify_total.success,
                             metrics.notify_total.success + 1}
                  /\ metrics'.notify_total.failure
                        \in {metrics.notify_total.failure,
                             metrics.notify_total.failure + 1}
                  /\ posted'[l] = None
          /\ metrics'.notify_total # metrics.notify_total
               => pc[l] = "notify" /\ pc'[l] = "clear"]_vars

\* Two runs are recorded, a success and a failure, with a notifier that is
\* enabled for failures only: one notification has been sent.
C40_Witness ==
    /\ config.ntfy
    /\ ~config.notify_on.success
    /\ config.notify_on.failure
    /\ metrics.runs_total.success = 1
    /\ metrics.runs_total.failure = 1
    /\ NotifyCount(metrics) = 1
    /\ pc[1] = "clear"

====
